---------------------------- MODULE Spec2Model ----------------------------
(***************************************************************************)
(* Grok Discord bot (bot.py): the message handler on_message, its rate     *)
(* limiter, the per-conversation transcripts (conversation_history), the   *)
(* completion request built by query_grok, and the pure helpers            *)
(* is_simple_question, is_image_generation_request, truncate_history,      *)
(* truncate_text and truncate_to_char_limit.                               *)
(*                                                                         *)
(* A Python str is a sequence of one-character strings.  The coroutine     *)
(* on_message runs on one event loop: it is cut into atomic steps at the   *)
(* awaits that really suspend (attachment.read, channel.typing, the        *)
(* message.reply sends).  query_grok and generate_image use the blocking   *)
(* OpenAI client and contain no await, so they run inside a step.          *)
(***************************************************************************)
EXTENDS Integers, Sequences, FiniteSets, TLC

(***************************************************************************)
(* Program constants (bot.py:33-37).                                       *)
(***************************************************************************)
MAX_TOKENS == 128000
MAX_RESPONSE_TOKENS == 400
RATE_LIMIT == 5
DISCORD_MAX_CHARS == 1800
RATE_WINDOW_SECONDS == 60
PDF_MAX_CHARS == 3000
SIMPLE_WORD_THRESHOLD == 10
SIMPLE_TOKEN_BUDGET == 100
RETRY_TOKEN_REDUCTION == 100
SYSTEM_PROMPT_RESERVE == 50
NO_PERIOD_RESERVE == 100

(***************************************************************************)
(* Python str primitives used by the program.                              *)
(***************************************************************************)
UpperCase ==
  <<"A", "B", "C", "D", "E", "F", "G", "H", "I", "J", "K", "L", "M",
    "N", "O", "P", "Q", "R", "S", "T", "U", "V", "W", "X", "Y", "Z">>

LowerCase ==
  <<"a", "b", "c", "d", "e", "f", "g", "h", "i", "j", "k", "l", "m",
    "n", "o", "p", "q", "r", "s", "t", "u", "v", "w", "x", "y", "z">>

Digits == {"0", "1", "2", "3", "4", "5", "6", "7", "8", "9"}

lower_char(c) ==
  IF \E i \in 1..26 : UpperCase[i] = c
  THEN LowerCase[CHOOSE i \in 1..26 : UpperCase[i] = c]
  ELSE c

\* str.lower()
lower(s) == [i \in 1..Len(s) |-> lower_char(s[i])]

\* the characters str.strip() and str.split() treat as whitespace
isspace(c) == c \in {" ", "\n", "\t"}

\* str.lstrip(): from the first character that is not whitespace
lstrip(s) ==
  IF s = <<>> \/ ~isspace(s[1]) THEN s
  ELSE IF \A i \in 1..Len(s) : isspace(s[i]) THEN <<>>
  ELSE SubSeq(s, CHOOSE i \in 1..Len(s) :
                   ~isspace(s[i]) /\ \A j \in 1..(i - 1) : isspace(s[j]),
              Len(s))

\* str.rstrip(): up to the last character that is not whitespace
rstrip(s) ==
  IF s = <<>> \/ ~isspace(s[Len(s)]) THEN s
  ELSE IF \A i \in 1..Len(s) : isspace(s[i]) THEN <<>>
  ELSE SubSeq(s, 1, CHOOSE i \in 1..Len(s) :
                      ~isspace(s[i]) /\ \A j \in (i + 1)..Len(s) : isspace(s[j]))

\* str.strip()
strip(s) == rstrip(lstrip(s))

\* the first whitespace-free run of s (s does not start with whitespace)
first_word(s) ==
  IF \A i \in 1..Len(s) : ~isspace(s[i]) THEN s
  ELSE SubSeq(s, 1, (CHOOSE i \in 1..Len(s) :
                       isspace(s[i]) /\ \A j \in 1..(i - 1) : ~isspace(s[j])) - 1)

\* str.split(): the maximal whitespace-free runs, in order
RECURSIVE split(_)
split(s) ==
  LET t == lstrip(s)
      w == first_word(t)
  IN IF t = <<>> THEN <<>>
     ELSE <<w>> \o split(SubSeq(t, Len(w) + 1, Len(t)))

\* str.startswith(prefix)
startswith(s, p) == Len(p) <= Len(s) /\ SubSeq(s, 1, Len(p)) = p

\* str.endswith(suffix)
endswith(s, p) == Len(p) <= Len(s) /\ SubSeq(s, Len(s) - Len(p) + 1, Len(s)) = p

\* sub occurs in s at the 1-based position i (sub is not empty)
occurs_at(s, sub, i) ==
  /\ i + Len(sub) - 1 <= Len(s)
  /\ s[i] = sub[1]
  /\ SubSeq(s, i, i + Len(sub) - 1) = sub

\* str.find(sub): the least 0-based index where sub occurs, or -1
find(s, sub) ==
  IF \E i \in 1..Len(s) : occurs_at(s, sub, i)
  THEN (CHOOSE i \in 1..Len(s) :
          occurs_at(s, sub, i) /\ \A j \in 1..(i - 1) : ~occurs_at(s, sub, j)) - 1
  ELSE -1

\* str.replace(old, new): leftmost non-overlapping occurrences (old is not empty)
RECURSIVE replace(_, _, _)
replace(s, old, new) ==
  LET at == find(s, old)
  IN IF at = -1 THEN s
     ELSE SubSeq(s, 1, at) \o new \o replace(SubSeq(s, at + Len(old) + 1, Len(s)), old, new)

\* str.rfind(ch): the greatest 0-based index of ch, or -1
rfind(s, ch) ==
  IF \E i \in 1..Len(s) : s[i] = ch
  THEN (CHOOSE i \in 1..Len(s) : s[i] = ch /\ \A j \in (i + 1)..Len(s) : s[j] # ch) - 1
  ELSE -1

\* text[:n] for n >= 0
slice_to(s, n) == SubSeq(s, 1, IF n < Len(s) THEN n ELSE Len(s))

(***************************************************************************)
(* is_image_generation_request (bot.py:51-53): re.search of                *)
(*   \b(generate|create|make|draw)\b.*\b(image|picture|art|photo)\b        *)
(* with re.IGNORECASE.                                                     *)
(***************************************************************************)
ImageVerbs ==
  { <<"g", "e", "n", "e", "r", "a", "t", "e">>, <<"c", "r", "e", "a", "t", "e">>,
    <<"m", "a", "k", "e">>, <<"d", "r", "a", "w">> }

ImageNouns ==
  { <<"i", "m", "a", "g", "e">>, <<"p", "i", "c", "t", "u", "r", "e">>,
    <<"a", "r", "t">>, <<"p", "h", "o", "t", "o">> }

\* \w
is_word_char(c) ==
  \/ \E i \in 1..26 : LowerCase[i] = lower_char(c)
  \/ c \in Digits
  \/ c = "_"

\* \b between s[p-1] and s[p]
word_boundary(s, p) ==
  LET before == p - 1 >= 1 /\ p - 1 <= Len(s) /\ is_word_char(s[p - 1])
      after  == p >= 1 /\ p <= Len(s) /\ is_word_char(s[p])
  IN before # after

\* the word w, case-insensitively, at s[p..], with \b on both sides
whole_word_at(s, p, w) ==
  /\ p + Len(w) - 1 <= Len(s)
  /\ lower_char(s[p]) = w[1]
  /\ lower(SubSeq(s, p, p + Len(w) - 1)) = w
  /\ word_boundary(s, p)
  /\ word_boundary(s, p + Len(w))

\* a match is a verb at some i, then any characters but a newline, then a noun
is_image_generation_request(content) ==
  \E i \in 1..Len(content) : \E v \in ImageVerbs :
    /\ whole_word_at(content, i, v)
    /\ \E j \in (i + Len(v))..Len(content) : \E n \in ImageNouns :
         /\ whole_word_at(content, j, n)
         /\ \A k \in (i + Len(v))..(j - 1) : content[k] # "\n"

(***************************************************************************)
(* is_simple_question (bot.py:55-63).                                      *)
(***************************************************************************)
simple_keywords ==
  << <<"w", "h", "a", "t", " ", "i", "s">>, <<"w", "h", "o", " ", "i", "s">>,
     <<"w", "h", "e", "n", " ", "i", "s">>, <<"w", "h", "e", "r", "e", " ", "i", "s">>,
     <<"h", "o", "w", " ", "m", "a", "n", "y">>, <<"d", "e", "f", "i", "n", "e">> >>

\* a variant that counts the characters of the text instead of its words
is_simple_question_chars(content) ==
  LET c == strip(lower(content))
  IN IF Len(c) < SIMPLE_WORD_THRESHOLD
     THEN TRUE
     ELSE \E k \in 1..Len(simple_keywords) : startswith(c, simple_keywords[k])

\* a variant that does not lower the text before comparing the prefixes
is_simple_question_cased(content) ==
  LET c == strip(content)
  IN IF Len(split(c)) < SIMPLE_WORD_THRESHOLD
     THEN TRUE
     ELSE \E k \in 1..Len(simple_keywords) : startswith(c, simple_keywords[k])

is_simple_question(content) ==
  LET c == strip(lower(content))
  IN IF Len(split(c)) < SIMPLE_WORD_THRESHOLD
     THEN TRUE
     ELSE \E k \in 1..Len(simple_keywords) : startswith(c, simple_keywords[k])

\* classify of the conversation design: the name of the brevity policy
classify(content) == IF is_simple_question(content) THEN "simple" ELSE "detailed"

(***************************************************************************)
(* truncate_text (bot.py:248-250).                                         *)
(***************************************************************************)
truncate_text(text, max_chars) ==
  IF Len(text) > max_chars THEN slice_to(text, max_chars) ELSE text

(***************************************************************************)
(* truncate_to_char_limit (bot.py:80-91).                                  *)
(***************************************************************************)
ShortenedNotice ==
  <<".", ".", ".", " ", "(", "r", "e", "s", "p", "o", "n", "s", "e", " ", "s", "h", "o",
    "r", "t", "e", "n", "e", "d", " ", "d", "u", "e", " ", "t", "o", " ", "D", "i", "s",
    "c", "o", "r", "d", "'", "s", " ", "2", "0", "0", "0", "-", "c", "h", "a", "r", "a",
    "c", "t", "e", "r", " ", "l", "i", "m", "i", "t", ";", " ", "k", "e", "y", " ", "p",
    "o", "i", "n", "t", "s", " ", "s", "u", "m", "m", "a", "r", "i", "z", "e", "d", ")">>

\* a variant that looks for the last period or space in the whole text
truncate_to_char_limit_whole_text(text, max_chars) ==
  IF Len(text) <= max_chars THEN text
  ELSE LET period == rfind(text, ".")
           space  == rfind(text, " ")
           cutoff == IF period # -1 THEN period
                     ELSE IF space # -1 THEN space
                     ELSE max_chars - NO_PERIOD_RESERVE
       IN slice_to(text, cutoff) \o ShortenedNotice

truncate_to_char_limit(text, max_chars) ==
  IF Len(text) <= max_chars THEN text
  ELSE LET head   == slice_to(text, max_chars)
           period == rfind(head, ".")
           space  == rfind(head, " ")
           cutoff == IF period # -1 THEN period
                     ELSE IF space # -1 THEN space
                     ELSE max_chars - NO_PERIOD_RESERVE
       IN slice_to(text, cutoff) \o ShortenedNotice

(***************************************************************************)
(* Sample strings.  HugeText and LongReply stand for inputs near the       *)
(* limits of the program: the token count of HugeText is close to the      *)
(* transcript ceiling and LongReply is one character longer than           *)
(* DISCORD_MAX_CHARS.                                                      *)
(***************************************************************************)
TextHi == <<"h", "i">>

TextDraw == <<"d", "r", "a", "w", " ", "a", "r", "t">>

TextHelp == <<"!", "h", "e", "l", "p">>

\* stands for a long message of ten words or more, none of the
\* simple_keywords in front (the detailed policy); the code reads its
\* words, its first characters and its token count only
HugeText ==
  <<"a", " ", "b", " ", "c", " ", "d", " ", "e", " ", "f", " ", "g", " ", "h", " ",
    "i", " ", "j">>

RawReplyOk == <<"o", "k", "\n">>

LongReply == [i \in 1..(DISCORD_MAX_CHARS + 1) |-> "x"]

ImageUrl == <<"u">>

PdfText == <<"p", "d", "f">>

(***************************************************************************)
(* len(encoding.encode(content)) with tiktoken's cl100k_base               *)
(* (bot.py:254,259).  The tokenizer is a library; its count is tabulated   *)
(* for the sample strings and is at most one token per character for the   *)
(* other (short, ASCII) strings.                                           *)
(***************************************************************************)
\* the token count of HugeText: fifty below the ceiling (bot.py:179)
HUGE_TEXT_TOKENS == MAX_TOKENS - MAX_RESPONSE_TOKENS - 100

\* the token count of LongReply: within the budget of a first call under
\* either policy (bot.py:204,210)
LONG_REPLY_TOKENS == SIMPLE_TOKEN_BUDGET

encode_len(content) ==
  IF content = HugeText THEN HUGE_TEXT_TOKENS
  ELSE IF content = LongReply THEN LONG_REPLY_TOKENS
  ELSE Len(content)

(***************************************************************************)
(* Turns and transcripts.  A turn is the dict {"role", "content"}.         *)
(***************************************************************************)
Turn(role, content) == [role |-> role, content |-> content]

RECURSIVE total_size(_)
total_size(messages) ==
  IF messages = <<>> THEN 0
  ELSE encode_len(messages[1].content) + total_size(Tail(messages))

\* t is a contiguous suffix of s
IsSuffix(t, s) ==
  Len(t) <= Len(s) /\ t = SubSeq(s, Len(s) - Len(t) + 1, Len(s))

(***************************************************************************)
(* truncate_history (bot.py:252-265): walk the turns from the newest,      *)
(* keep a turn while the running total stays within max_tokens, stop at    *)
(* the first turn that does not fit.                                       *)
(***************************************************************************)
RECURSIVE truncate_history_loop(_, _, _, _, _)
truncate_history_loop(messages, i, max_tokens, total_tokens, truncated_messages) ==
  IF i = 0 THEN truncated_messages
  ELSE LET msg_tokens == encode_len(messages[i].content)
       IN IF total_tokens + msg_tokens <= max_tokens
          THEN truncate_history_loop(messages, i - 1, max_tokens,
                                     total_tokens + msg_tokens,
                                     <<messages[i]>> \o truncated_messages)
          ELSE truncated_messages

\* a variant that skips a turn that does not fit and goes on to older turns
\* (continue in place of break)
RECURSIVE truncate_history_skip_loop(_, _, _, _, _)
truncate_history_skip_loop(messages, i, max_tokens, total_tokens, truncated_messages) ==
  IF i = 0 THEN truncated_messages
  ELSE LET msg_tokens == encode_len(messages[i].content)
       IN IF total_tokens + msg_tokens <= max_tokens
          THEN truncate_history_skip_loop(messages, i - 1, max_tokens,
                                          total_tokens + msg_tokens,
                                          <<messages[i]>> \o truncated_messages)
          ELSE truncate_history_skip_loop(messages, i - 1, max_tokens,
                                          total_tokens, truncated_messages)

truncate_history_skip(messages, max_tokens) ==
  truncate_history_skip_loop(messages, Len(messages), max_tokens, 0, <<>>)

\* a variant that walks the turns from the oldest (reversed left out) and
\* keeps the turns that fit before the first that does not
RECURSIVE truncate_history_oldest_first_loop(_, _, _, _, _)
truncate_history_oldest_first_loop(messages, i, max_tokens, total_tokens, truncated_messages) ==
  IF i > Len(messages) THEN truncated_messages
  ELSE LET msg_tokens == encode_len(messages[i].content)
       IN IF total_tokens + msg_tokens <= max_tokens
          THEN truncate_history_oldest_first_loop(messages, i + 1, max_tokens,
                                                  total_tokens + msg_tokens,
                                                  <<messages[i]>> \o truncated_messages)
          ELSE truncated_messages

truncate_history_oldest_first(messages, max_tokens) ==
  truncate_history_oldest_first_loop(messages, 1, max_tokens, 0, <<>>)

\* a variant that keeps the newest turn whatever its size
truncate_history_keep_newest(messages, max_tokens) ==
  IF messages = <<>> THEN <<>>
  ELSE truncate_history_loop(messages, Len(messages) - 1, max_tokens,
                             encode_len(messages[Len(messages)].content),
                             <<messages[Len(messages)]>>)

\* a variant that drops the oldest turn once (if in place of while)
truncate_history_drop_one(messages, max_tokens) ==
  IF total_size(messages) > max_tokens THEN Tail(messages) ELSE messages

truncate_history(messages, max_tokens) ==
  truncate_history_loop(messages, Len(messages), max_tokens, 0, <<>>)

\* the ceiling handed to truncate_history by on_message (bot.py:179)
HistoryCeiling == MAX_TOKENS - MAX_RESPONSE_TOKENS - SYSTEM_PROMPT_RESERVE

(***************************************************************************)
(* query_grok (bot.py:196-235).  The chat-completions endpoint is outside  *)
(* the program: the outcome of a call is an input, either a reply text or  *)
(* a raised OpenAIError or another exception (caught at bot.py:187-192).   *)
(***************************************************************************)
SimpleInstruction ==
  <<"P", "r", "o", "v", "i", "d", "e", " ", "a", " ", "b", "r", "i", "e", "f", ",", " ",
    "a", "c", "c", "u", "r", "a", "t", "e", " ", "a", "n", "s", "w", "e", "r", " ", "i",
    "n", " ", "u", "n", "d", "e", "r", " ", "1", "0", "0", " ", "w", "o", "r", "d", "s",
    " ", "a", "n", "d", " ", "5", "0", "0", " ", "c", "h", "a", "r", "a", "c", "t", "e",
    "r", "s", ",", " ", "f", "o", "c", "u", "s", "i", "n", "g", " ", "o", "n", " ", "k",
    "e", "y", " ", "f", "a", "c", "t", "s", " ", "w", "i", "t", "h", "o", "u", "t", " ",
    "e", "l", "a", "b", "o", "r", "a", "t", "i", "o", "n", ".">>

DetailedInstruction ==
  <<"P", "r", "o", "v", "i", "d", "e", " ", "a", " ", "c", "o", "m", "p", "l", "e", "t",
    "e", " ", "a", "n", "d", " ", "a", "c", "c", "u", "r", "a", "t", "e", " ", "a", "n",
    "s", "w", "e", "r", " ", "i", "n", " ", "u", "n", "d", "e", "r", " ", "5", "0", "0",
    " ", "w", "o", "r", "d", "s", " ", "a", "n", "d", " ", "1", "8", "0", "0", " ", "c",
    "h", "a", "r", "a", "c", "t", "e", "r", "s", ",", " ", "p", "r", "i", "o", "r", "i",
    "t", "i", "z", "i", "n", "g", " ", "b", "r", "e", "v", "i", "t", "y", " ", "w", "h",
    "i", "l", "e", " ", "f", "u", "l", "l", "y", " ", "a", "d", "d", "r", "e", "s", "s",
    "i", "n", "g", " ", "t", "h", "e", " ", "q", "u", "e", "r", "y", ".", " ", "A", "v",
    "o", "i", "d", " ", "u", "n", "n", "e", "c", "e", "s", "s", "a", "r", "y", " ", "e",
    "l", "a", "b", "o", "r", "a", "t", "i", "o", "n", ".">>

Chars1800 ==
  <<"1", "8", "0", "0", " ", "c", "h", "a", "r", "a", "c", "t", "e", "r", "s">>

Chars1500 ==
  <<"1", "5", "0", "0", " ", "c", "h", "a", "r", "a", "c", "t", "e", "r", "s">>

Chars500 ==
  <<"5", "0", "0", " ", "c", "h", "a", "r", "a", "c", "t", "e", "r", "s">>

Chars400 ==
  <<"4", "0", "0", " ", "c", "h", "a", "r", "a", "c", "t", "e", "r", "s">>

Words500 ==
  <<"5", "0", "0", " ", "w", "o", "r", "d", "s">>

Words400 ==
  <<"4", "0", "0", " ", "w", "o", "r", "d", "s">>

Words100 ==
  <<"1", "0", "0", " ", "w", "o", "r", "d", "s">>

Words80 ==
  <<"8", "0", " ", "w", "o", "r", "d", "s">>

Min(a, b) == IF a <= b THEN a ELSE b

\* bot.py:199-210: the system prompt and the response budget of the policy
system_prompt(is_simple) ==
  Turn("system", IF is_simple THEN SimpleInstruction ELSE DetailedInstruction)

\* a variant that takes the larger of the two budgets for a simple question
max_tokens_for_larger(is_simple) ==
  IF is_simple
  THEN (IF MAX_RESPONSE_TOKENS >= SIMPLE_TOKEN_BUDGET
        THEN MAX_RESPONSE_TOKENS ELSE SIMPLE_TOKEN_BUDGET)
  ELSE MAX_RESPONSE_TOKENS

max_tokens_for(is_simple) ==
  IF is_simple THEN Min(MAX_RESPONSE_TOKENS, SIMPLE_TOKEN_BUDGET) ELSE MAX_RESPONSE_TOKENS

\* bot.py:223: the chain of str.replace applied to the prompt before the retry
retry_instruction(content) ==
  replace(replace(replace(replace(content, Chars1800, Chars1500),
                          Chars500, Chars400),
                  Words500, Words400),
          Words100, Words80)

\* a variant that sends the newest turn only
CompletionCallNewestOnly(prompt, messages, max_tokens) ==
  [messages |-> <<prompt>> \o SubSeq(messages, Len(messages), Len(messages)),
   max_tokens |-> max_tokens]

\* one client.chat.completions.create call: its messages and max_tokens
CompletionCall(prompt, messages, max_tokens) ==
  [messages |-> <<prompt>> \o messages, max_tokens |-> max_tokens]

ApiOk(text) == [kind |-> "ok", text |-> text]

ApiOpenAIError == [kind |-> "openai_error", text |-> <<>>]

ApiException == [kind |-> "exception", text |-> <<>>]

\* the outcomes the completion endpoint is given in the model
ApiOutcomes == {ApiOk(RawReplyOk), ApiOk(LongReply), ApiOpenAIError, ApiException}

\* query_grok(messages, is_simple) with first and second the outcomes of the
\* first call and of the retry; the result carries the calls that were made
query_grok(messages, is_simple, first, second) ==
  LET prompt     == system_prompt(is_simple)
      max_tokens == max_tokens_for(is_simple)
      call1      == CompletionCall(prompt, messages, max_tokens)
      retry      == Turn("system", retry_instruction(prompt.content))
      call2      == CompletionCall(retry, messages, max_tokens - RETRY_TOKEN_REDUCTION)
      text1      == strip(first.text)
  IN IF first.kind # "ok"
     THEN [kind |-> first.kind, text |-> <<>>, calls |-> <<call1>>]
     ELSE IF Len(text1) > DISCORD_MAX_CHARS
          THEN IF second.kind # "ok"
               THEN [kind |-> second.kind, text |-> <<>>, calls |-> <<call1, call2>>]
               ELSE [kind |-> "ok", text |-> strip(second.text), calls |-> <<call1, call2>>]
          ELSE [kind |-> "ok", text |-> text1, calls |-> <<call1>>]

(***************************************************************************)
(* Identities, messages, attachments.                                      *)
(***************************************************************************)
Users == {1, 2}

Channels == {1}

\* bot.user.id
BotUser == 9

DigitChars == <<"0", "1", "2", "3", "4", "5", "6", "7", "8", "9">>

\* str(id) of a one-digit id, as f-strings format it
id_str(n) == <<DigitChars[n + 1]>>

\* f"<@{bot.user.id}>" (bot.py:155-157)
Mention == <<"<", "@">> \o id_str(BotUser) \o <<">">>

PdfSuffix ==
  <<".", "p", "d", "f">>

JpgSuffix ==
  <<".", "j", "p", "g">>

JpegSuffix ==
  <<".", "j", "p", "e", "g">>

PngSuffix ==
  <<".", "p", "n", "g">>

FileDocPdf ==
  <<"d", "o", "c", ".", "p", "d", "f">>

FilePicPng ==
  <<"p", "i", "c", ".", "P", "N", "G">>

GeneratedImagePrefix ==
  <<"G", "e", "n", "e", "r", "a", "t", "e", "d", " ", "i", "m", "a", "g", "e", ":", " ">>

ImageUploadedPrefix ==
  <<"I", "m", "a", "g", "e", " ", "u", "p", "l", "o", "a", "d", "e", "d", ":", " ">>

ImageUploadedSuffix ==
  <<" ", "(", "i", "m", "a", "g", "e", " ", "a", "n", "a", "l", "y", "s", "i", "s", " ",
    "n", "o", "t", " ", "s", "u", "p", "p", "o", "r", "t", "e", "d", ",", " ", "t", "r",
    "y", " ", "g", "e", "n", "e", "r", "a", "t", "i", "n", "g", " ", "a", "n", " ", "i",
    "m", "a", "g", "e", " ", "i", "n", "s", "t", "e", "a", "d", ")">>

\* a discord.Message: reference is the set holding the author of the resolved
\* referenced message (empty when there is none), attachments their filenames
Message(author, channel, content, reference, attachments) ==
  [author |-> author, channel |-> channel, content |-> content,
   reference |-> reference, attachments |-> attachments]

NoMessage == Message(0, 0, <<>>, {}, <<>>)

\* the messages of the model: the first user sends every kind, the other
\* users commands, chat questions and image requests
MessagesOf(u, c) ==
  { Message(u, c, TextHelp, {}, <<>>),
    Message(u, c, Mention \o <<" ">> \o HugeText, {}, <<>>),
    Message(u, c, Mention \o <<" ">> \o TextDraw, {}, <<>>) }
  \cup
  IF u # 1 THEN {}
  ELSE { Message(u, c, Mention, {}, <<>>),
         Message(u, c, <<>>, {BotUser}, <<>>),
         Message(u, c, TextHelp, {BotUser}, <<>>),
         Message(u, c, TextHelp, {}, <<FileDocPdf>>),
         Message(u, c, TextHi, {}, <<FileDocPdf>>),
         Message(u, c, Mention, {}, <<FileDocPdf>>),
         Message(u, c, Mention, {}, <<FilePicPng>>) }

Messages ==
  UNION {MessagesOf(u, c) : u \in Users, c \in Channels}
    \cup {Message(BotUser, c, TextHi, {}, <<>>) : c \in Channels}

\* a variant that keys the transcripts by channel alone, under the first user
history_key_by_channel(m) == id_str(1) \o <<"_">> \o id_str(m.channel)

\* history_key = f"{message.author.id}_{message.channel.id}" (bot.py:126)
history_key(m) == id_str(m.author) \o <<"_">> \o id_str(m.channel)

Keys == {history_key(Message(u, c, <<>>, {}, <<>>)) : u \in Users, c \in Channels}

\* bot.py:129-133
is_reply_to_bot(m) == m.reference = {BotUser}

\* bot.py:137
is_pdf(filename) == endswith(filename, PdfSuffix)

has_pdf(m) == \E i \in 1..Len(m.attachments) : is_pdf(m.attachments[i])

\* bot.py:150
is_image_file(filename) ==
  \E suffix \in {JpgSuffix, JpegSuffix, PngSuffix} : endswith(lower(filename), suffix)

has_image_file(m) == \E i \in 1..Len(m.attachments) : is_image_file(m.attachments[i])

first_image_file(m) ==
  m.attachments[CHOOSE i \in 1..Len(m.attachments) :
                  /\ is_image_file(m.attachments[i])
                  /\ \A j \in 1..(i - 1) : ~is_image_file(m.attachments[j])]

\* bot.py:151
image_uploaded_text(filename) == ImageUploadedPrefix \o filename \o ImageUploadedSuffix

\* bot.py:155
is_addressed(m, reply_to_bot) == startswith(m.content, Mention) \/ reply_to_bot

\* bot.py:148-162: the content handed to the context manager, given the content
\* left by the reply check and the PDF loop (None and "" are both <<>>)
effective_content(m, content) ==
  LET c1 == IF has_image_file(m) THEN image_uploaded_text(first_image_file(m)) ELSE content
      c2 == IF startswith(m.content, Mention) /\ c1 = <<>>
            THEN strip(replace(m.content, Mention, <<>>))
            ELSE c1
  IN IF c2 = <<>> THEN strip(m.content) ELSE c2

\* bot.process_commands (bot.py:194) invokes help_command for "!help"
is_help_command(m) ==
  /\ m.author # BotUser
  /\ startswith(m.content, TextHelp)
  /\ (Len(m.content) = Len(TextHelp) \/ isspace(m.content[Len(TextHelp) + 1]))

(***************************************************************************)
(* Bounds of the model.                                                    *)
(***************************************************************************)
\* the messages of a behaviour: a message whose handler returns in its first
\* step counts 1, one whose handler reaches an await counts HandlerLoad
MaxLoad == 6

HandlerLoad == MaxLoad \div 2

\* handlers suspended at an await at the same time
MaxTasks == 2

\* the clock stops advancing at MaxTime seconds, in steps of TickSeconds
MaxTime == 60

TickSeconds == 60

(***************************************************************************)
(* State.                                                                  *)
(***************************************************************************)
VARIABLES
  conversation_history,  \* bot.py:47  history_key -> list of turns
  user_requests,         \* bot.py:49  user id -> list of timestamps
  clock,                 \* datetime.utcnow(), in seconds
  tasks,                 \* the on_message coroutines suspended at an await
  load,                  \* the load of the messages delivered so far
  calls,                 \* the completion calls made by the last step
  sent,                  \* the messages sent to Discord by the last step
  handled,               \* the message whose handler ran in the last step
  accepted,              \* user id -> the timestamps of the messages let pass
  messages_in,           \* truncation machine: the list of turns
  cap_in,                \* truncation machine: the cap
  before_truncate,       \* truncation machine: the list before the last truncate
  last_op,               \* truncation machine: the last operation
  text_in,               \* classification machine: the text
  class_out,             \* classification machine: the result of classify
  reply_in,              \* reply machine: the text of the model's reply
  reply_out,             \* reply machine: the text sent to Discord
  reply_op               \* reply machine: the last operation

botvars ==
  <<conversation_history, user_requests, clock, tasks, load, calls, sent, handled,
    accepted>>

truncvars == <<messages_in, cap_in, before_truncate, last_op>>

classvars == <<text_in, class_out>>

replyvars == <<reply_in, reply_out, reply_op>>

vars == <<botvars, truncvars, classvars, replyvars>>

Slots == 1..MaxTasks

\* a suspended coroutine: where it waits and the locals it still needs
Task(pc, m, content, reply_to_bot) ==
  [pc |-> pc, msg |-> m, content |-> content, reply_to_bot |-> reply_to_bot]

Idle == Task("idle", NoMessage, <<>>, FALSE)

\* the first free slot
FreeSlot(s) == tasks[s] = Idle /\ \A r \in 1..(s - 1) : tasks[r] # Idle

Reply(kind, text) == [kind |-> kind, text |-> text]

\* the handler of m ran; returned tells whether it ran to its end
Handled(m, returned) == [msg |-> m, returned |-> returned]

BotInit ==
  /\ conversation_history = [k \in Keys |-> <<>>]
  /\ user_requests = [u \in Users |-> <<>>]
  /\ clock = 0
  /\ tasks = [s \in Slots |-> Idle]
  /\ load = 0
  /\ calls = <<>>
  /\ sent = <<>>
  /\ handled = Handled(NoMessage, FALSE)
  /\ accepted = [u \in Users |-> <<>>]

TruncIdle ==
  /\ messages_in = <<>>
  /\ cap_in = 0
  /\ before_truncate = <<>>
  /\ last_op = "none"

ClassIdle ==
  /\ text_in = <<>>
  /\ class_out = "none"

ReplyIdle ==
  /\ reply_in = <<>>
  /\ reply_out = <<>>
  /\ reply_op = "none"

Init == BotInit /\ TruncIdle /\ ClassIdle /\ ReplyIdle

(***************************************************************************)
(* on_message (bot.py:110-194).                                            *)
(***************************************************************************)
\* bot.py:118: the timestamps of the user younger than the window
recent_requests(u) ==
  SelectSeq(user_requests[u], LAMBDA t : clock - t < RATE_WINDOW_SECONDS)

\* the help text is sent when process_commands finds the command
CommandReplies(m) == IF is_help_command(m) THEN <<Reply("help", <<>>)>> ELSE <<>>

\* a message is delivered; its handler will add to the load of the behaviour
Deliver(m, weight) ==
  /\ load + weight <= MaxLoad
  /\ load' = load + weight
  /\ UNCHANGED <<clock, truncvars, classvars, replyvars>>

\* bot.py:112-113: the bot's own message
OnMessageOwn(m) ==
  /\ Deliver(m, 1)
  /\ m.author = BotUser
  /\ calls' = <<>>
  /\ sent' = <<>>
  /\ handled' = Handled(m, TRUE)
  /\ UNCHANGED <<conversation_history, user_requests, tasks, accepted>>

\* a variant that records the timestamp of a rejected message too
OnMessageRateLimitedStamped(m) ==
  /\ Deliver(m, 1)
  /\ m.author # BotUser
  /\ Len(recent_requests(m.author)) >= RATE_LIMIT
  /\ user_requests' =
       [user_requests EXCEPT ![m.author] = Append(recent_requests(m.author), clock)]
  /\ calls' = <<>>
  /\ sent' = <<Reply("rate_limited", <<>>)>>
  /\ handled' = Handled(m, TRUE)
  /\ UNCHANGED <<conversation_history, tasks, accepted>>

\* bot.py:116-121: the rate limiter rejects the message
OnMessageRateLimited(m) ==
  /\ Deliver(m, 1)
  /\ m.author # BotUser
  /\ Len(recent_requests(m.author)) >= RATE_LIMIT
  /\ user_requests' = [user_requests EXCEPT ![m.author] = recent_requests(m.author)]
  /\ calls' = <<>>
  /\ sent' = <<Reply("rate_limited", <<>>)>>
  /\ handled' = Handled(m, TRUE)
  /\ UNCHANGED <<conversation_history, tasks, accepted>>

\* a variant that lets a message pass while the list holds RATE_LIMIT entries
AcceptedOneMore(m) ==
  /\ m.author # BotUser
  /\ Len(recent_requests(m.author)) <= RATE_LIMIT
  /\ user_requests' =
       [user_requests EXCEPT ![m.author] = Append(recent_requests(m.author), clock)]
  /\ accepted' = [accepted EXCEPT ![m.author] = Append(@, clock)]

\* bot.py:116-122: the rate limiter lets the message pass
Accepted(m) ==
  /\ m.author # BotUser
  /\ Len(recent_requests(m.author)) < RATE_LIMIT
  /\ user_requests' =
       [user_requests EXCEPT ![m.author] = Append(recent_requests(m.author), clock)]
  /\ accepted' = [accepted EXCEPT ![m.author] = Append(@, clock)]

\* bot.py:124-133: content after the reply check
content_after_reference(m) == IF is_reply_to_bot(m) THEN strip(m.content) ELSE <<>>

\* bot.py:154-165 and 194: with the effective content c, the handler suspends
\* in channel.typing() when the message is addressed to the bot and c is not
\* empty, and goes to process_commands otherwise
Dispatch(s, m, c, reply_to_bot) ==
  IF is_addressed(m, reply_to_bot) /\ c # <<>>
  THEN /\ tasks' = [tasks EXCEPT ![s] = Task("typing", m, c, reply_to_bot)]
       /\ sent' = <<>>
  ELSE /\ tasks' = [tasks EXCEPT ![s] = Idle]
       /\ sent' = CommandReplies(m)

\* bot.py:148-165 and 194: from the image-attachment loop on
AfterPdfLoop(s, m, content, reply_to_bot) ==
  Dispatch(s, m, effective_content(m, content), reply_to_bot)

\* bot.py:116-139: a message with a PDF attachment suspends in attachment.read()
OnMessagePdf(s, m) ==
  /\ FreeSlot(s)
  /\ Accepted(m)
  /\ has_pdf(m)
  /\ Deliver(m, HandlerLoad)
  /\ tasks' = [tasks EXCEPT ![s] =
                 Task("read", m, content_after_reference(m), is_reply_to_bot(m))]
  /\ calls' = <<>>
  /\ sent' = <<>>
  /\ handled' = Handled(m, FALSE)
  /\ UNCHANGED conversation_history

\* bot.py:116-165/194: a message without a PDF attachment
OnMessage(s, m) ==
  /\ FreeSlot(s)
  /\ Accepted(m)
  /\ ~has_pdf(m)
  /\ AfterPdfLoop(s, m, content_after_reference(m), is_reply_to_bot(m))
  /\ Deliver(m, IF tasks'[s] = Idle THEN 1 ELSE HandlerLoad)
  /\ handled' = Handled(m, tasks'[s] = Idle)
  /\ calls' = <<>>
  /\ UNCHANGED conversation_history

Step(s, pc) ==
  /\ tasks[s].pc = pc
  /\ UNCHANGED <<clock, load, user_requests, accepted, truncvars, classvars, replyvars>>

\* bot.py:139-142: the PDF was read and its text extracted
PdfRead(s) ==
  /\ Step(s, "read")
  /\ AfterPdfLoop(s, tasks[s].msg, truncate_text(PdfText, PDF_MAX_CHARS),
                  tasks[s].reply_to_bot)
  /\ handled' = Handled(tasks[s].msg, tasks'[s] = Idle)
  /\ calls' = <<>>
  /\ UNCHANGED conversation_history

\* bot.py:143-146: reading or extracting failed
PdfFailed(s) ==
  /\ Step(s, "read")
  /\ tasks' = [tasks EXCEPT ![s] = Idle]
  /\ sent' = <<Reply("pdf_error", <<>>)>>
  /\ handled' = Handled(tasks[s].msg, TRUE)
  /\ calls' = <<>>
  /\ UNCHANGED conversation_history

\* bot.py:167-170: an image request; the image was generated and the reply
\* with its URL is being sent
ImageGenerated(s) ==
  /\ Step(s, "typing")
  /\ is_image_generation_request(tasks[s].content)
  /\ tasks' = [tasks EXCEPT ![s].pc = "image_reply"]
  /\ sent' = <<Reply("image", GeneratedImagePrefix \o ImageUrl)>>
  /\ handled' = Handled(tasks[s].msg, FALSE)
  /\ calls' = <<>>
  /\ UNCHANGED conversation_history

\* bot.py:167-175: generate_image raised OpenAIError
ImageFailed(s) ==
  /\ Step(s, "typing")
  /\ is_image_generation_request(tasks[s].content)
  /\ tasks' = [tasks EXCEPT ![s] = Idle]
  /\ sent' = <<Reply("image_error", <<>>)>>
  /\ handled' = Handled(tasks[s].msg, TRUE)
  /\ calls' = <<>>
  /\ UNCHANGED conversation_history

\* bot.py:171-175: the reply was sent; both turns are appended
ImageReplied(s) ==
  /\ Step(s, "image_reply")
  /\ conversation_history' =
       [conversation_history EXCEPT ![history_key(tasks[s].msg)] =
          @ \o <<Turn("user", tasks[s].content),
                 Turn("assistant", GeneratedImagePrefix \o ImageUrl)>>]
  /\ tasks' = [tasks EXCEPT ![s] = Idle]
  /\ sent' = <<>>
  /\ calls' = <<>>
  /\ handled' = Handled(tasks[s].msg, TRUE)

\* a variant that puts the user turn in front of the transcript
with_user_turn_in_front(history, content) ==
  truncate_history(<<Turn("user", content)>> \o history, HistoryCeiling)

\* bot.py:178-179: the user turn is appended and the transcript truncated
with_user_turn(history, content) ==
  truncate_history(Append(history, Turn("user", content)), HistoryCeiling)

\* the retry is made only after a first reply longer than DISCORD_MAX_CHARS
\* (bot.py:222); without a retry no second outcome is drawn
RetryOutcomes(first) ==
  IF first.kind = "ok" /\ Len(strip(first.text)) > DISCORD_MAX_CHARS
  THEN ApiOutcomes
  ELSE {first}

\* bot.py:183-194: the end of the chat path, given the transcript after the
\* user append and the result of query_grok.  After the reply is sent the
\* coroutine only leaves the typing context and runs process_commands, which
\* reads and writes no state of the program.
ChatResult(s, key, messages, result) ==
  /\ calls' = result.calls
  /\ IF result.kind = "ok"
     THEN /\ conversation_history' =
               [conversation_history EXCEPT ![key] =
                  Append(messages, Turn("assistant", result.text))]
          /\ sent' = <<Reply("answer",
                             truncate_to_char_limit(result.text, DISCORD_MAX_CHARS))>>
                        \o CommandReplies(tasks[s].msg)
     ELSE /\ conversation_history' = [conversation_history EXCEPT ![key] = messages]
          /\ sent' = <<Reply(IF result.kind = "openai_error"
                             THEN "grok_api_error" ELSE "unexpected_error", <<>>)>>
                        \o CommandReplies(tasks[s].msg)

\* bot.py:178-182: the user append, the truncation and the call of query_grok
ChatOutcome(s, first, second) ==
  LET key      == history_key(tasks[s].msg)
      content  == tasks[s].content
      messages == with_user_turn(conversation_history[key], content)
  IN ChatResult(s, key, messages,
                query_grok(messages, is_simple_question(content), first, second))

\* bot.py:177-194: the chat path, from the user append to the end of the handler
Chat(s) ==
  /\ Step(s, "typing")
  /\ ~is_image_generation_request(tasks[s].content)
  /\ tasks' = [tasks EXCEPT ![s] = Idle]
  /\ handled' = Handled(tasks[s].msg, TRUE)
  /\ \E first \in ApiOutcomes : \E second \in RetryOutcomes(first) :
       ChatOutcome(s, first, second)

\* time passes
Tick ==
  /\ clock + TickSeconds <= MaxTime
  /\ clock' = clock + TickSeconds
  /\ calls' = <<>>
  /\ sent' = <<>>
  /\ handled' = Handled(NoMessage, FALSE)
  /\ UNCHANGED <<conversation_history, user_requests, tasks, load, accepted,
                  truncvars, classvars, replyvars>>

Next ==
  \/ \E m \in Messages : OnMessageOwn(m)
  \/ \E m \in Messages : OnMessageRateLimited(m)
  \/ \E s \in Slots : \E m \in Messages : OnMessagePdf(s, m)
  \/ \E s \in Slots : \E m \in Messages : OnMessage(s, m)
  \/ \E s \in Slots : PdfRead(s)
  \/ \E s \in Slots : PdfFailed(s)
  \/ \E s \in Slots : ImageGenerated(s)
  \/ \E s \in Slots : ImageFailed(s)
  \/ \E s \in Slots : ImageReplied(s)
  \/ \E s \in Slots : Chat(s)
  \/ Tick

Spec == Init /\ [][Next]_vars

(***************************************************************************)
(* The truncation machine: truncate_history as a function of any list of   *)
(* turns and any cap.  A list is built by appends and truncated with the   *)
(* cap drawn at the start.  The contents are short ASCII strings, counted  *)
(* one token per character.                                                *)
(***************************************************************************)
\* the longest list of turns
MaxLen == 3

Filler(n) == [i \in 1..n |-> "t"]

TurnSizes == {0, 30, 50}

TruncCaps == {0, 50, 80, 100, 130}

Roles == {"user", "assistant"}

TruncInit ==
  /\ messages_in = <<>>
  /\ cap_in \in TruncCaps
  /\ before_truncate = <<>>
  /\ last_op = "none"

\* conversation_history[key].append(turn)
TruncAppend(role, n) ==
  /\ Len(messages_in) < MaxLen
  /\ messages_in' = Append(messages_in, Turn(role, Filler(n)))
  /\ last_op' = "append"
  /\ UNCHANGED <<cap_in, before_truncate, botvars, classvars, replyvars>>

\* messages[:] = truncate_history(messages, cap)
TruncTruncate ==
  /\ messages_in' = truncate_history(messages_in, cap_in)
  /\ before_truncate' = messages_in
  /\ last_op' = "truncate"
  /\ UNCHANGED <<cap_in, botvars, classvars, replyvars>>

TruncNext ==
  \/ \E role \in Roles : \E n \in TurnSizes : TruncAppend(role, n)
  \/ TruncTruncate

InitTrunc == BotInit /\ TruncInit /\ ClassIdle /\ ReplyIdle

SpecTrunc == InitTrunc /\ [][TruncNext]_vars

(***************************************************************************)
(* The classification machine: is_simple_question as a function of any     *)
(* text.  A text is some leading whitespace, an opening and a number of    *)
(* further words.                                                          *)
(***************************************************************************)
\* the most words that follow the opening of a text
MaxWords == 11

TextGravity ==
  <<"W", "h", "a", "t", " ", "i", "s", " ", "g", "r", "a", "v", "i", "t", "y", "?">>

TextEssay ==
  <<"W", "r", "i", "t", "e", " ", "a", " ", "d", "e", "t", "a", "i", "l", "e", "d", " ",
    "5", "0", "0", "-", "w", "o", "r", "d", " ", "e", "s", "s", "a", "y", " ", "c", "o",
    "m", "p", "a", "r", "i", "n", "g", " ", "t", "w", "o", " ", "e", "c", "o", "n", "o",
    "m", "i", "c", " ", "t", "h", "e", "o", "r", "i", "e", "s">>

Openings ==
  { <<>>,
    <<"w", "h", "a", "t", " ", "i", "s">>,
    <<"W", "h", "a", "t", " ", "I", "s">>,
    <<"w", "h", "a", "t", " ", " ", "i", "s">>,
    <<"w", "h", "a", "t", "i", "s">>,
    <<"w", "h", "o", " ", "i", "s">>,
    <<"w", "h", "e", "n", " ", "i", "s">>,
    <<"W", "H", "E", "R", "E", " ", "I", "S">>,
    <<"h", "o", "w", " ", "m", "a", "n", "y">>,
    <<"d", "e", "f", "i", "n", "e", "d">>,
    <<"s", "o", " ", "w", "h", "a", "t", " ", "i", "s">> }

Paddings == {<<>>, <<" ", "\n">>}

Separators == {<<" ">>, <<"\t", " ">>}

\* n further words, each after the separator
RECURSIVE MoreWords(_, _)
MoreWords(sep, n) == IF n = 0 THEN <<>> ELSE sep \o <<"w">> \o MoreWords(sep, n - 1)

ClassifyTexts ==
  {pad \o opening \o MoreWords(sep, n) \o pad :
     pad \in Paddings, opening \in Openings, sep \in Separators, n \in 0..MaxWords}
    \cup {TextGravity, TextEssay}

ClassPick(text) ==
  /\ text_in' = text
  /\ class_out' = "none"
  /\ UNCHANGED <<botvars, truncvars, replyvars>>

ClassClassify ==
  /\ class_out = "none"
  /\ class_out' = classify(text_in)
  /\ UNCHANGED <<text_in, botvars, truncvars, replyvars>>

ClassNext ==
  \/ \E text \in ClassifyTexts : ClassPick(text)
  \/ ClassClassify

SpecClassify == Init /\ [][ClassNext]_vars

(***************************************************************************)
(* The reply machine: truncate_to_char_limit as a function of any reply of *)
(* the model.  A reply is a run of letters with at most one period and one *)
(* space in it, of a length around DISCORD_MAX_CHARS or well beyond it.    *)
(***************************************************************************)
\* the lengths just over DISCORD_MAX_CHARS go up to DISCORD_MAX_CHARS + MaxExcess
MaxExcess == 2

ReplyLengths ==
  {0, 1} \cup ((DISCORD_MAX_CHARS - 1)..(DISCORD_MAX_CHARS + MaxExcess))
         \cup {2 * DISCORD_MAX_CHARS + MaxExcess}

\* where the period or the space stands; 0 for none
MarkPositions ==
  {0, 1, 2, DISCORD_MAX_CHARS - NO_PERIOD_RESERVE, DISCORD_MAX_CHARS - 1,
   DISCORD_MAX_CHARS, DISCORD_MAX_CHARS + 1, 2 * DISCORD_MAX_CHARS}

ReplyText(n, period, space) ==
  [i \in 1..n |-> IF i = period THEN "." ELSE IF i = space THEN " " ELSE "x"]

ReplyTexts ==
  {ReplyText(n, period, space) :
     n \in ReplyLengths, period \in MarkPositions, space \in MarkPositions}

\* response_text = await query_grok(...)
ReplyPick(text) ==
  /\ reply_op = "none"
  /\ reply_in' = text
  /\ reply_out' = <<>>
  /\ reply_op' = "pick"
  /\ UNCHANGED <<botvars, truncvars, classvars>>

\* await message.reply(truncate_to_char_limit(response_text, DISCORD_MAX_CHARS))
ReplySend ==
  /\ reply_op = "pick"
  /\ reply_out' = truncate_to_char_limit(reply_in, DISCORD_MAX_CHARS)
  /\ reply_op' = "send"
  /\ UNCHANGED <<reply_in, botvars, truncvars, classvars>>

ReplyNext ==
  \/ \E text \in ReplyTexts : ReplyPick(text)
  \/ ReplySend

SpecReply == Init /\ [][ReplyNext]_vars

(***************************************************************************)
(* Properties of the transcripts.                                          *)
(***************************************************************************)
\* the turns of a list of sizes, for the examples
SizesOf(messages) == [i \in 1..Len(messages) |-> Len(messages[i].content)]

\* C1: after any append of a turn, of the user or of the assistant, on the
\* chat path or on the image path, the token total of every transcript is
\* at most MAX_TOKENS - MAX_RESPONSE_TOKENS - 50.
TranscriptWithinCeiling ==
  \A k \in DOMAIN conversation_history :
    total_size(conversation_history[k]) <= MAX_TOKENS - MAX_RESPONSE_TOKENS - 50

\* C2: for every list of turns and every cap >= 0, the token sizes of the
\* turns truncate_history returns sum to at most the cap.
TruncatedWithinCap ==
  last_op = "truncate" => total_size(messages_in) <= cap_in

\* a truncation that dropped some turns and kept others
TruncatedSomeKept ==
  /\ last_op = "truncate"
  /\ messages_in # <<>>
  /\ Len(messages_in) < Len(before_truncate)
  /\ cap_in > 0

\* the loop of the conversation design: while the total is over the cap,
\* drop the oldest turn
RECURSIVE DropOldestWhileOver(_, _)
DropOldestWhileOver(messages, cap) ==
  IF total_size(messages) > cap
  THEN DropOldestWhileOver(Tail(messages), cap)
  ELSE messages

\* C4: truncate_history keeps exactly the longest suffix of the list whose
\* total is within the cap, which is what dropping the oldest turn while the
\* total is over the cap leaves; turns of 50, 50 and 50 under a cap of 80
\* leave the last turn alone.
TruncateKeepsLongestSuffix ==
  last_op = "truncate" =>
    /\ IsSuffix(messages_in, before_truncate)
    /\ total_size(messages_in) <= cap_in
    /\ \A n \in (Len(messages_in) + 1)..Len(before_truncate) :
         total_size(SubSeq(before_truncate, Len(before_truncate) - n + 1,
                           Len(before_truncate))) > cap_in
    /\ messages_in = DropOldestWhileOver(before_truncate, cap_in)
    /\ (SizesOf(before_truncate) = <<50, 50, 50>> /\ cap_in = 80) =>
         messages_in = <<before_truncate[3]>>

\* the example of C4: three turns of 50 truncated under a cap of 80
TruncatedThreeFifties ==
  /\ last_op = "truncate"
  /\ SizesOf(before_truncate) = <<50, 50, 50>>
  /\ cap_in = 80
  /\ Len(messages_in) = 1

\* C5: truncating a second time under the same cap, after an append and a
\* truncation, returns the truncated list unchanged.
TruncateIdempotent ==
  last_op = "truncate" => truncate_history(messages_in, cap_in) = messages_in

\* an append and a truncation that dropped a turn, after an earlier truncation
TruncatedAfterAppend ==
  /\ last_op = "truncate"
  /\ Len(before_truncate) = MaxLen
  /\ Len(messages_in) = MaxLen - 1
  /\ before_truncate[Len(before_truncate)].role = "user"

\* the key of the transcript of a message, written out from its two ids
KeyOfIds(author, channel) == <<DigitChars[author + 1], "_", DigitChars[channel + 1]>>

\* the handler in slot s is suspended at an await and takes this step
HandlerSteps(s) == tasks[s] # Idle /\ tasks'[s] # tasks[s]

\* C3: every step of on_message changes a transcript by appends at its end
\* and removals from its front only: the transcript after the step is a
\* contiguous suffix of the transcript before it followed by the turns the
\* step appended (the user turn, or the user turn and the assistant turn).
TranscriptChangesAtEndsOnly ==
  [][\A k \in DOMAIN conversation_history :
       LET before == conversation_history[k]
           after  == conversation_history'[k]
       IN after # before =>
            \E s \in Slots :
              /\ HandlerSteps(s)
              /\ LET user == Turn("user", tasks[s].content)
                 IN \/ IsSuffix(after, Append(before, user))
                    \/ /\ after # <<>>
                       /\ after[Len(after)].role = "assistant"
                       /\ IsSuffix(after, before \o <<user, after[Len(after)]>>)]_vars

\* a transcript that lost its oldest turn and starts with a reply
TranscriptLostOldestTurn ==
  \E k \in DOMAIN conversation_history :
    /\ conversation_history[k] # <<>>
    /\ conversation_history[k][1].role = "assistant"

(***************************************************************************)
(* Properties of the classification.                                       *)
(***************************************************************************)
\* the whitespace-separated words of a text, counted at their first characters
WordCount(text) ==
  Cardinality({i \in 1..Len(text) :
                 ~isspace(text[i]) /\ (i = 1 \/ isspace(text[i - 1]))})

\* the text without the whitespace around it, in lower case, begins with p
BeginsWith(text, p) ==
  \E i \in 1..(Len(text) + 1) :
    /\ \A j \in 1..(i - 1) : isspace(text[j])
    /\ i + Len(p) - 1 <= Len(text)
    /\ ~isspace(text[i])
    /\ \A j \in 1..Len(p) : lower_char(text[i + j - 1]) = p[j]

SimplePrefixes ==
  { <<"w", "h", "a", "t", " ", "i", "s">>, <<"w", "h", "o", " ", "i", "s">>,
    <<"w", "h", "e", "n", " ", "i", "s">>, <<"w", "h", "e", "r", "e", " ", "i", "s">>,
    <<"h", "o", "w", " ", "m", "a", "n", "y">>, <<"d", "e", "f", "i", "n", "e">> }

\* C6 as the conversation design states it: "What is gravity?" is simple and
\* the request for a 500-word essay comparing two economic theories is
\* detailed.
ExamplesSimpleAndDetailed ==
  /\ (text_in = TextGravity /\ class_out # "none") => class_out = "simple"
  /\ (text_in = TextEssay /\ class_out # "none") => class_out = "detailed"

\* C6: "What is gravity?" is classified simple, and so is "Write a detailed
\* 500-word essay comparing two economic theories", which has nine words.
ExamplesBothSimple ==
  /\ (text_in = TextGravity /\ class_out # "none") => class_out = "simple"
  /\ (text_in = TextEssay /\ class_out # "none") =>
       (class_out = "simple" /\ WordCount(TextEssay) = 9)

\* the essay request has been classified
EssayClassified == text_in = TextEssay /\ class_out # "none"

\* C7: a text is simple exactly when it has fewer than 10 whitespace-separated
\* words or, lower-cased and stripped, starts with "what is", "who is",
\* "when is", "where is", "how many" or "define"; the answer depends on the
\* text alone.
SimpleIffShortOrPrefixed ==
  class_out # "none" =>
    /\ class_out \in {"simple", "detailed"}
    /\ class_out = "simple" <=>
         \/ WordCount(text_in) < 10
         \/ \E p \in SimplePrefixes : BeginsWith(text_in, p)
    /\ \A text \in ClassifyTexts : text = text_in => classify(text) = class_out

\* a text of ten words or more, simple by a prefix written in capitals
LongTextSimpleByPrefix ==
  /\ class_out = "simple"
  /\ WordCount(text_in) >= 10
  /\ \E i \in 1..Len(text_in) : text_in[i] \in {"W", "H"}

(***************************************************************************)
(* Properties of the completion calls.                                     *)
(***************************************************************************)
\* the handler in slot s takes the step of the chat path
ChatSteps(s) ==
  /\ tasks[s].pc = "typing"
  /\ tasks'[s] = Idle
  /\ calls' # <<>>

\* the turns of a payload are the transcript of the key as the step leaves
\* it, less the assistant turn the step appended after the call
TurnsAreTranscript(call, s) ==
  LET turns == Tail(call.messages)
      after == conversation_history'[KeyOfIds(tasks[s].msg.author, tasks[s].msg.channel)]
      user  == Turn("user", tasks[s].content)
  IN /\ turns # <<>>
     /\ turns[Len(turns)] = user
     /\ IsSuffix(turns,
                 Append(conversation_history[KeyOfIds(tasks[s].msg.author,
                                                      tasks[s].msg.channel)], user))
     /\ \/ after = turns
        \/ /\ Len(after) = Len(turns) + 1
           /\ SubSeq(after, 1, Len(turns)) = turns
           /\ after[Len(after)].role = "assistant"

\* the system instruction of the policy of a text
PolicyInstruction(content) ==
  IF classify(content) = "simple" THEN SimpleInstruction ELSE DetailedInstruction

\* the instructions of the retry, as Python's str.replace leaves them
RetrySimpleInstruction ==
  <<"P", "r", "o", "v", "i", "d", "e", " ", "a", " ", "b", "r", "i", "e", "f", ",", " ",
    "a", "c", "c", "u", "r", "a", "t", "e", " ", "a", "n", "s", "w", "e", "r", " ", "i",
    "n", " ", "u", "n", "d", "e", "r", " ", "8", "0", " ", "w", "o", "r", "d", "s", " ",
    "a", "n", "d", " ", "4", "0", "0", " ", "c", "h", "a", "r", "a", "c", "t", "e", "r",
    "s", ",", " ", "f", "o", "c", "u", "s", "i", "n", "g", " ", "o", "n", " ", "k", "e",
    "y", " ", "f", "a", "c", "t", "s", " ", "w", "i", "t", "h", "o", "u", "t", " ", "e",
    "l", "a", "b", "o", "r", "a", "t", "i", "o", "n", ".">>

RetryDetailedInstruction ==
  <<"P", "r", "o", "v", "i", "d", "e", " ", "a", " ", "c", "o", "m", "p", "l", "e", "t",
    "e", " ", "a", "n", "d", " ", "a", "c", "c", "u", "r", "a", "t", "e", " ", "a", "n",
    "s", "w", "e", "r", " ", "i", "n", " ", "u", "n", "d", "e", "r", " ", "4", "0", "0",
    " ", "w", "o", "r", "d", "s", " ", "a", "n", "d", " ", "1", "4", "0", "0", " ", "c",
    "h", "a", "r", "a", "c", "t", "e", "r", "s", ",", " ", "p", "r", "i", "o", "r", "i",
    "t", "i", "z", "i", "n", "g", " ", "b", "r", "e", "v", "i", "t", "y", " ", "w", "h",
    "i", "l", "e", " ", "f", "u", "l", "l", "y", " ", "a", "d", "d", "r", "e", "s", "s",
    "i", "n", "g", " ", "t", "h", "e", " ", "q", "u", "e", "r", "y", ".", " ", "A", "v",
    "o", "i", "d", " ", "u", "n", "n", "e", "c", "e", "s", "s", "a", "r", "y", " ", "e",
    "l", "a", "b", "o", "r", "a", "t", "i", "o", "n", ".">>

\* C8 as the conversation design states it: the payload of every completion
\* call, the first and the retry, is the system instruction of the policy
\* followed by exactly the turns of the transcript after the user append and
\* the truncation.
EveryPayloadIsPolicyThenTranscript ==
  [][\A s \in Slots : ChatSteps(s) =>
       \A i \in 1..Len(calls') :
         /\ calls'[i].messages[1] = Turn("system", PolicyInstruction(tasks[s].content))
         /\ TurnsAreTranscript(calls'[i], s)]_vars

\* C8: the payload of every completion call is a system instruction followed
\* by exactly the turns of the transcript after the user append and the
\* truncation; the first call carries the instruction of the policy, the
\* retry carries that instruction with its limits lowered (80 words and 400
\* characters, or 400 words and 1400 characters).
PayloadIsInstructionThenTranscript ==
  [][\A s \in Slots : ChatSteps(s) =>
       /\ Len(calls') \in {1, 2}
       /\ calls'[1].messages[1] = Turn("system", PolicyInstruction(tasks[s].content))
       /\ Len(calls') = 2 =>
            calls'[2].messages[1] =
              Turn("system", IF classify(tasks[s].content) = "simple"
                             THEN RetrySimpleInstruction
                             ELSE RetryDetailedInstruction)
       /\ \A i \in 1..Len(calls') : TurnsAreTranscript(calls'[i], s)]_vars

\* a retry was made with a transcript of three turns or more
RetriedWithLongTranscript ==
  /\ Len(calls) = 2
  /\ Len(calls[2].messages) >= 4

\* C9: a simple text gets the short-answer instruction and a response budget
\* of 100 tokens, a detailed text the longer-answer instruction and a budget
\* of 400 tokens; the simple budget is the smaller one.
PolicyOfClass ==
  calls # <<>> =>
    LET first   == calls[1]
        content == first.messages[Len(first.messages)].content
    IN /\ classify(content) = "simple" =>
            /\ first.messages[1] = Turn("system", SimpleInstruction)
            /\ first.max_tokens = 100
       /\ classify(content) = "detailed" =>
            /\ first.messages[1] = Turn("system", DetailedInstruction)
            /\ first.max_tokens = 400
       /\ max_tokens_for(TRUE) < max_tokens_for(FALSE)
       /\ Len(SimpleInstruction) < Len(DetailedInstruction)

\* a call was made for a simple text
SimpleCallMade ==
  /\ calls # <<>>
  /\ classify(calls[1].messages[Len(calls[1].messages)].content) = "simple"

(***************************************************************************)
(* Isolation of the transcripts.                                           *)
(***************************************************************************)
\* C10: under any interleaving of the handlers, a step that handles a message
\* with key k leaves the transcript of every other key unchanged.
OtherTranscriptsUnchanged ==
  [][\A k \in DOMAIN conversation_history :
       conversation_history'[k] # conversation_history[k] =>
         \E s \in Slots :
           /\ HandlerSteps(s)
           /\ k = KeyOfIds(tasks[s].msg.author, tasks[s].msg.channel)]_vars

\* the handler in the second slot, of one key, is still suspended after the
\* handler in the first slot has written the transcript of another key
WrittenWhileOtherSuspended ==
  \E k \in DOMAIN conversation_history :
    /\ tasks[1] = Idle
    /\ tasks[2].pc = "typing"
    /\ k # KeyOfIds(tasks[2].msg.author, tasks[2].msg.channel)
    /\ conversation_history[k] # <<>>
    /\ conversation_history[KeyOfIds(tasks[2].msg.author, tasks[2].msg.channel)] = <<>>

(***************************************************************************)
(* Degenerate inputs.                                                      *)
(***************************************************************************)
\* the message is addressed to the bot: it starts with the mention or replies
\* to one of the bot's messages
AddressedToBot(m) ==
  \/ (Len(m.content) >= Len(Mention) /\ SubSeq(m.content, 1, Len(Mention)) = Mention)
  \/ m.reference = {BotUser}

\* the message carries no text besides the mention and no attachment
CarriesNothing(m) ==
  /\ m.attachments = <<>>
  /\ \A i \in 1..Len(m.content) :
       \/ isspace(m.content[i])
       \/ \E j \in 1..Len(Mention) :
            /\ i - j + 1 >= 1
            /\ i - j + Len(Mention) <= Len(m.content)
            /\ SubSeq(m.content, i - j + 1, i - j + Len(Mention)) = Mention

\* C11: a message addressed to the bot whose effective content is empty (a
\* bare mention, or a reply to the bot without text, and no attachment) is a
\* no-op: its handler appends no turn, makes no call and sends no reply; and truncate_history of the empty transcript is empty.
EmptyContentIsNoOp ==
  [][(handled'.msg.author \in Users
        /\ AddressedToBot(handled'.msg) /\ CarriesNothing(handled'.msg)) =>
       /\ sent' = <<>>
       /\ calls' = <<>>
       /\ conversation_history' = conversation_history
       /\ \A cap \in TruncCaps : truncate_history(<<>>, cap) = <<>>]_vars

(***************************************************************************)
(* The rate limiter.                                                       *)
(***************************************************************************)
\* C12: for every user, under any interleaving of the handlers, the list of
\* timestamps never holds more than 5 entries, and at most 5 of the user's
\* messages pass the rate-limit check among any messages whose timestamps
\* are less than 60 seconds apart.
AtMostFivePerWindow ==
  \A u \in Users :
    /\ Len(user_requests[u]) <= 5
    /\ \A i \in 1..Len(accepted[u]) :
         Cardinality({j \in 1..Len(accepted[u]) :
                        /\ accepted[u][j] >= accepted[u][i]
                        /\ accepted[u][j] - accepted[u][i] < 60}) <= 5

\* a user had five messages let pass at one time and one more a window later
PassedAgainAfterWindow ==
  \E u \in Users :
    /\ Len(accepted[u]) > 5
    /\ Len(user_requests[u]) = 1

(***************************************************************************)
(* Commands.                                                               *)
(***************************************************************************)
\* the message of a user is the command "!help"
IsHelpMessage(m) ==
  /\ m.author \in Users
  /\ m.content = <<"!", "h", "e", "l", "p">>

\* C13: whenever a user sends a "!help" command message, the bot sends the
\* help text in response: when the handler of the message returns, the help
\* text has been sent.
HelpAlwaysAnswered ==
  (handled.returned /\ IsHelpMessage(handled.msg)) =>
    \E i \in 1..Len(sent) : sent[i].kind = "help"

(***************************************************************************)
(* Properties of the replies.                                              *)
(***************************************************************************)
\* C14: for every reply of the model, the text sent to Discord after
\* truncate_to_char_limit(response_text, 1800) is at most 2000 characters
\* long, the shortening notice included.
SentTextFitsDiscord ==
  reply_op = "send" =>
    /\ Len(reply_out) <= 2000
    /\ Len(reply_in) <= 1800 => reply_out = reply_in

\* a reply cut at a period in its 1800th place: the longest text sent
SentLongestShortened ==
  /\ reply_op = "send"
  /\ Len(reply_in) > 1800
  /\ Len(reply_out) = 1799 + Len(ShortenedNotice)

(***************************************************************************)
(* Properties of the response budgets.                                     *)
(***************************************************************************)
\* C15: every completion call issued by query_grok, the retry included, is
\* given a response budget max_tokens > 0, under both policies.
EveryBudgetPositive ==
  \A i \in 1..Len(calls) : calls[i].max_tokens > 0

(***************************************************************************)
(* Failures of the upstream calls.                                         *)
(***************************************************************************)
\* the step sent the reply that reports a failed completion or image call
UpstreamCallFailed ==
  \E i \in 1..Len(sent') :
    sent'[i].kind \in {"grok_api_error", "unexpected_error", "image_error"}

\* C16: if the upstream call made for a message fails (the completion or the
\* image generation raises), the message contributes no turn: the transcript
\* of its key is the same as before the message was handled.
FailedCallLeavesTranscript ==
  [][UpstreamCallFailed => conversation_history' = conversation_history]_vars

(***************************************************************************)
(* Handlers of the same key.                                               *)
(***************************************************************************)
\* C17: under any interleaving of the handlers of one key, no turn of another
\* message is appended between the user turn and the assistant turn of a
\* message: the step that appends an assistant turn appends the user turn of
\* the same message right before it, and every assistant turn but a first one
\* follows a user turn.
ExchangeTurnsAdjacent ==
  [][\A k \in DOMAIN conversation_history :
       LET before == conversation_history[k]
           after  == conversation_history'[k]
       IN /\ (after # before /\ after # <<>> /\ after[Len(after)].role = "assistant") =>
               \E s \in Slots :
                 /\ HandlerSteps(s)
                 /\ k = KeyOfIds(tasks[s].msg.author, tasks[s].msg.channel)
                 /\ Len(after) >= 2
                 /\ after[Len(after) - 1] = Turn("user", tasks[s].content)
                 /\ IsSuffix(SubSeq(after, 1, Len(after) - 2), before)
          /\ \A i \in 2..Len(after) :
               after[i].role = "assistant" => after[i - 1].role = "user"]_vars

\* the handler in the second slot is still suspended after the handler in the
\* first slot has appended an exchange to the transcript of the same key
SameKeyWrittenWhileSuspended ==
  /\ tasks[1] = Idle
  /\ tasks[2].pc = "typing"
  /\ LET own == conversation_history[KeyOfIds(tasks[2].msg.author, tasks[2].msg.channel)]
     IN own # <<>> /\ own[Len(own)].role = "assistant"

(***************************************************************************)
(* Messages that are not for the bot.                                      *)
(***************************************************************************)
\* the message starts with the command prefix
IsCommandMessage(m) == m.content # <<>> /\ m.content[1] = "!"

\* C18: a message of a user that neither starts with a mention of the bot,
\* nor replies to one of the bot's messages, nor is a command never causes a
\* reply, a call of the model or a change of a transcript.
UnaddressedIsIgnored ==
  [][(/\ handled'.msg.author \in Users
      /\ ~AddressedToBot(handled'.msg)
      /\ ~IsCommandMessage(handled'.msg)) =>
       /\ sent' = <<>>
       /\ calls' = <<>>
       /\ conversation_history' = conversation_history]_vars

(***************************************************************************)
(* Rejected messages.                                                      *)
(***************************************************************************)
\* the step sent the reply of the rate limiter
RejectedByRateLimiter ==
  \E i \in 1..Len(sent') : sent'[i].kind = "rate_limited"

\* C19: a message rejected by the rate limiter has no effect beyond the "too
\* quickly" reply: no timestamp is recorded for the user, no transcript
\* changes, and no completion, image or PDF processing is started.
RejectedHasNoEffect ==
  [][RejectedByRateLimiter =>
       /\ Len(sent') = 1
       /\ user_requests' = user_requests
       /\ conversation_history' = conversation_history
       /\ calls' = <<>>
       /\ tasks' = tasks
       /\ handled'.returned]_vars

\* a message addressed to the bot, or carrying a PDF, was rejected
RejectedOneForTheBot ==
  /\ \E i \in 1..Len(sent) : sent[i].kind = "rate_limited"
  /\ AddressedToBot(handled.msg) \/ handled.msg.attachments # <<>>
  /\ Len(user_requests[handled.msg.author]) = 5

=============================================================================
